---- MODULE Spec2Model ----
(***************************************************************************)
(* A model of the three batch scripts of the profile repository:           *)
(*   - update-readme        (src/scripts/update-readme.js, lines 1-149)    *)
(*   - contribution globe   (src/scripts/update-readme.js, lines 151-345)  *)
(*   - skill radar          (src/scripts/generate-skill-radar.js)          *)
(* Texts are sequences of tokens; the two README markers are single        *)
(* tokens (neither marker is a prefix, suffix or infix of the other, so    *)
(* includes() and the regular expression see them as units).  Numbers that *)
(* JavaScript computes in floating point are kept as exact fractions.      *)
(***************************************************************************)
EXTENDS Integers, Sequences, FiniteSets, TLC

VARIABLES
  \* ---- update-readme ----
  pc,               \* position of main(): idle, fetching, generateContent, readFile, writeFile, done, failed
  now,              \* the wall clock, in abstract ticks
  env,              \* process.env: which credentials are set
  greeting,         \* the greeting line, holding the time main() started
  fst,              \* state of the four promises handed to Promise.all
  requests,         \* HTTP requests issued in this run, per endpoint
  resp,             \* the last response each endpoint gave
  results,          \* the values the four fetch functions resolved to
  generatedSection, \* generateSection's text
  renderAt,         \* the clock value formatDistanceToNow read
  existing,         \* README.md as read (or the default pair of markers)
  updatedReadme,    \* the text handed to writeFile
  README,           \* the file README.md
  exitCode,         \* -1 while running, else the process's exit status
  written,          \* README.md was written in this run
  runs,             \* runs started
  unchanged,        \* env and every response so far equal the previous successful run's
  sameClock,        \* every clock reading so far equals the previous run's
  \* ---- contribution globe ----
  gpc,              \* position of main(): idle, fetching, writeFallback, writeScene, done, failed
  gbody,            \* the calendar GitHub holds
  genv,             \* GITHUB_TOKEN is set
  gresp,            \* how the GraphQL request ended, and its weeks
  contrib, points,  \* main's locals
  globeSvg,         \* the file contrib-globe.svg
  gexit,            \* -1 while running, else the exit status
  gpath,            \* the branch of main that wrote in this run: catch or scene
  gNoData,          \* what the runs without credentials or without data did
  \* ---- pure functions of the globe script, applied to drawn inputs ----
  mapIn, mapOut, colorIn, colorOut,
  \* ---- skill radar ----
  rpc,              \* position of main(): idle, fetching, writePlaceholder, writeChart, done, failed, writeFailed
  rbody,            \* the languages WakaTime holds
  renv,             \* WAKATIME_USERNAME and WAKATIME_API_KEY are set
  rresp,            \* how the request ended, and its languages
  rawLangs, top,    \* main's locals
  radarSvg,         \* the file skill-radar.svg
  rexit,            \* -1 while running, else the exit status
  rpath,            \* the branch of main that wrote in this run: placeholder or chart
  rNoData,          \* what the runs without credentials or without data did
  rdivzero          \* a division by zero was carried out in this run

readmeVars == <<pc, now, env, greeting, fst, requests, resp, results, generatedSection,
                renderAt, existing, updatedReadme, README, exitCode, written, runs,
                unchanged, sameClock>>
globeVars == <<gpc, gbody, genv, gresp, contrib, points, globeSvg, gexit, gpath, gNoData>>
mapVars == <<mapIn, mapOut, colorIn, colorOut>>
radarVars == <<rpc, rbody, renv, rresp, rawLangs, top, radarSvg, rexit, rpath, rNoData,
               rdivzero>>
vars == <<readmeVars, globeVars, mapVars, radarVars>>

(***************************************************************************)
(* Bounds of the model.                                                    *)
(***************************************************************************)
MaxPriorLen == 3     \* tokens in the README.md found by the first run
MaxTime == 1         \* clock ticks
MaxRuns == 2         \* runs of update-readme
MaxSamples == 2      \* days handed to mapCalendarToSphere; weeks of a calendar
MaxWeekIndex == 2    \* highest week index of a drawn day
MaxCount == 3        \* highest contribution count of a day
MaxWindow == 2       \* largest window size drawn besides the script's own
MaxProbe == 6        \* highest count and maximum handed to colorForCount alone
MaxLangs == 7        \* languages in WakaTime's answer
MaxValue == 1        \* highest total_seconds of a language

(***************************************************************************)
(* Generic helpers.                                                        *)
(***************************************************************************)
Min(a, b) == IF a <= b THEN a ELSE b
Max(a, b) == IF a >= b THEN a ELSE b
SeqsUpTo(S, n) == UNION {[1..k -> S] : k \in 0..n}

(***************************************************************************)
(* Text.                                                                   *)
(***************************************************************************)
Tok(k, v) == [k |-> k, v |-> v]
startMarker == Tok("<!-- AUTO-GENERATED-START -->", 0)
endMarker == Tok("<!-- AUTO-GENERATED-END -->", 0)
NL == Tok("LF", 0)
Dollar == Tok("$", 0)
Amp == Tok("&", 0)
Backtick == Tok("backtick", 0)
Quote == Tok("quote", 0)
StaticText == Tok("static", 0)
PriorAlphabet == {startMarker, endMarker, StaticText}

\* String.prototype.includes
includes(text, marker) == \E i \in 1..Len(text) : text[i] = marker

\* String.prototype.indexOf(marker, from), 1-based; 0 when absent
indexOf(text, marker, from) ==
  IF \E i \in from..Len(text) : text[i] = marker
  THEN CHOOSE i \in from..Len(text) :
         text[i] = marker /\ \A j \in from..(i - 1) : text[j] # marker
  ELSE 0

\* a variant of regexExec: [\s\S]* without the ?, a greedy match to the last end marker
regexExecGreedy(text) ==
  LET s == indexOf(text, startMarker, 1)
      ends == {i \in 1..Len(text) : i > s /\ text[i] = endMarker}
  IN IF s = 0 \/ ends = {} THEN [found |-> FALSE, from |-> 0, to |-> 0]
     ELSE [found |-> TRUE, from |-> s, to |-> CHOOSE i \in ends : \A j \in ends : j <= i]

\* new RegExp(`${startMarker}[\\s\\S]*?${endMarker}`) run on text: the leftmost
\* start marker that an end marker follows, lazily up to the first such end marker
regexExec(text) ==
  LET s == indexOf(text, startMarker, 1)
      e == IF s = 0 THEN 0 ELSE indexOf(text, endMarker, s + 1)
  IN IF s = 0 \/ e = 0 THEN [found |-> FALSE, from |-> 0, to |-> 0]
     ELSE [found |-> TRUE, from |-> s, to |-> e]

\* GetSubstitution of String.prototype.replace with a string replacement:
\* $$ is a dollar, $& the match, $-backtick the text before it, $-quote the text after it
RECURSIVE GetSubstitution(_, _, _, _)
GetSubstitution(repl, matched, before, after) ==
  IF repl = <<>> THEN <<>>
  ELSE IF Head(repl) = Dollar /\ Len(repl) >= 2 /\ repl[2] \in {Dollar, Amp, Backtick, Quote}
  THEN (CASE repl[2] = Dollar -> <<Dollar>>
          [] repl[2] = Amp -> matched
          [] repl[2] = Backtick -> before
          [] repl[2] = Quote -> after)
       \o GetSubstitution(Tail(Tail(repl)), matched, before, after)
  ELSE <<Head(repl)>> \o GetSubstitution(Tail(repl), matched, before, after)

\* existing.replace(regex, newBlock)
replace(text, newBlock) ==
  LET m == regexExec(text)
  IN IF ~m.found THEN text
     ELSE LET before == SubSeq(text, 1, m.from - 1)
              matched == SubSeq(text, m.from, m.to)
              after == SubSeq(text, m.to + 1, Len(text))
          IN before \o GetSubstitution(newBlock, matched, before, after) \o after

\* `${startMarker}\n${generatedSection}\n${endMarker}`
NewBlock(section) == <<startMarker, NL>> \o section \o <<NL, endMarker>>

\* a variant of UpdatedReadme: the condition inverted, the block always prepended
UpdatedReadmePrepend(text, newBlock) == newBlock \o <<NL, NL>> \o text

\* lines 135-140 of main
UpdatedReadme(text, newBlock) ==
  IF includes(text, startMarker) /\ includes(text, endMarker)
  THEN replace(text, newBlock)
  ELSE newBlock \o <<NL, NL>> \o text


(***************************************************************************)
(* Numbers.  A JavaScript number is kept as an exact fraction n/d with     *)
(* d > 0; a division by zero gives NaN (0/0) or an infinity (n/0).         *)
(***************************************************************************)
Frac(n, d) == [n |-> n, d |-> d]
NaN == Frac(0, 0)
Sign(a) == IF a > 0 THEN 1 ELSE IF a < 0 THEN -1 ELSE 0
\* a / b for integers a and b
Div(a, b) == IF b = 0 THEN Frac(Sign(a), 0) ELSE IF b < 0 THEN Frac(-a, -b) ELSE Frac(a, b)
IsFinite(x) == x.d # 0
IsNaN(x) == x.d = 0 /\ x.n = 0
\* k + x for an integer k
AddInt(k, x) == IF x.d = 0 THEN x ELSE Frac(k * x.d + x.n, x.d)
FracEq(x, y) == IsFinite(x) /\ IsFinite(y) /\ x.n * y.d = y.n * x.d
FracLeq(x, y) == IsFinite(x) /\ IsFinite(y) /\ x.n * y.d <= y.n * x.d
FracMin(x, y) == IF FracLeq(x, y) THEN x ELSE y
\* the integer nearest to sqrt(n), halves up, for sqrt(n) <= hi
RoundSqrt(n, hi) ==
  LET ks == {k \in 0..hi : k = 0 \/ (2 * k - 1) * (2 * k - 1) <= 4 * n}
  IN CHOOSE k \in ks : \A j \in ks : j <= k
\* x.toFixed(digits) as a count of 10^-digits, halves up
ToFixed(x, scale) ==
  IF x.d = 0 THEN x ELSE Frac((2 * x.n * scale + x.d) \div (2 * x.d), scale)

(***************************************************************************)
(* Contribution globe: the pure functions.                                 *)
(***************************************************************************)
\* line 336 (and the default of line 295)
DefaultMaxWeeks == 52
PurpleRGB == <<197, 118, 246>>
OrangeRGB == <<251, 159, 22>>
Transparent == [kind |-> "rgba(0,0,0,0)", r |-> 0, g |-> 0, b |-> 0]
RGB(r, g, b) == [kind |-> "rgb", r |-> r, g |-> g, b |-> b]

\* Math.round(lerp(a, b, t)) for t = sqrt(qn/qd) with 0 <= qn/qd <= 1 (lines 197-199,
\* 208-210): Math.round takes halves up
RoundLerpSqrt(a, b, qn, qd) ==
  IF b >= a
  THEN LET d == b - a
           ks == {k \in 0..d : k = 0 \/ (2 * k - 1) * (2 * k - 1) * qd <= 4 * d * d * qn}
       IN a + (CHOOSE k \in ks : \A j \in ks : j <= k)
  ELSE LET d == a - b
           ks == {k \in 0..d : (2 * k + 1) * (2 * k + 1) * qd >= 4 * d * d * qn}
       IN a - (CHOOSE k \in ks : \A j \in ks : k <= j)

\* a variant of colorForCount whose first test is count < 0
colorForCountStrict(count, maxCount) ==
  IF count < 0 THEN Transparent
  ELSE LET m == Max(1, maxCount)
           qn == Min(m, count)
       IN RGB(RoundLerpSqrt(PurpleRGB[1], OrangeRGB[1], qn, m),
              RoundLerpSqrt(PurpleRGB[2], OrangeRGB[2], qn, m),
              RoundLerpSqrt(PurpleRGB[3], OrangeRGB[3], qn, m))

\* lines 201-212; t = sqrt(min(1, count / max(1, maxCount)))
colorForCount(count, maxCount) ==
  IF count <= 0 THEN Transparent
  ELSE LET m == Max(1, maxCount)
           qn == Min(m, count)
       IN RGB(RoundLerpSqrt(PurpleRGB[1], OrangeRGB[1], qn, m),
              RoundLerpSqrt(PurpleRGB[2], OrangeRGB[2], qn, m),
              RoundLerpSqrt(PurpleRGB[3], OrangeRGB[3], qn, m))

\* contrib.reduce((m, d) => Math.max(m, d[field]), 0), lines 298 and 301
ReduceMax(samples, field) ==
  LET seen == {0} \cup {samples[i][field] : i \in 1..Len(samples)}
  IN CHOOSE m \in seen : \A v \in seen : v <= m

\* line 302 without the "- 1": the window one week too long
firstWeekOffByOne(lastWeekIndex, maxWeeks) == Max(0, lastWeekIndex - maxWeeks)

\* line 302
firstWeekOf(lastWeekIndex, maxWeeks) == Max(0, lastWeekIndex - (maxWeeks - 1))

\* lines 307-318: the point of one retained day.  size is 1.2 + sqrt(bonusSquared),
\* which is baseSize + min(2.5, sqrt(count) * 0.5)
pointOf(d, firstWeek, maxWeeks, maxCount) ==
  LET relWeek == d.weekIndex - firstWeek
  IN [lon |-> AddInt(-180, Div(360 * relWeek, maxWeeks - 1)),
      lat |-> AddInt(-55, Div(110 * d.dayIndex, 6)),
      size |-> [base |-> Frac(12, 10),
                bonusSquared |-> IF d.count > 0 THEN Frac(Min(25, d.count), 4)
                                 ELSE Frac(0, 4)],
      opacity |-> IF d.count > 0
                  THEN FracMin(Frac(95, 100),
                               AddInt(0, Frac(Max(3, maxCount) + 5 * d.count,
                                              5 * Max(3, maxCount))))
                  ELSE Frac(0, 1),
      color |-> colorForCount(d.count, maxCount)]

\* lines 304-320: the loop; a day of a week before firstWeek is skipped (line 306),
\* every other day gives one point, in the order of the days
pointsFrom(samples, firstWeek, maxWeeks, maxCount) ==
  LET Kept(d) == ~(d.weekIndex < firstWeek)
      kept == SelectSeq(samples, Kept)
  IN [k \in 1..Len(kept) |-> pointOf(kept[k], firstWeek, maxWeeks, maxCount)]

\* lines 294-321
mapCalendarToSphere(samples, maxWeeks) ==
  IF Len(samples) = 0 THEN <<>>
  ELSE LET maxCount == ReduceMax(samples, "count")
           lastWeekIndex == ReduceMax(samples, "weekIndex")
           firstWeek == firstWeekOf(lastWeekIndex, maxWeeks)
       IN pointsFrom(samples, firstWeek, maxWeeks, maxCount)

\* lines 189-194: the weeks of the calendar, flattened; each day is its day of the
\* week (getUTCDay of its date) and its count
RECURSIVE flattenWeeks(_, _)
flattenWeeks(weeks, wi) ==
  IF weeks = <<>> THEN <<>>
  ELSE [i \in 1..Len(Head(weeks)) |->
          [weekIndex |-> wi, dayIndex |-> Head(weeks)[i].day, count |-> Head(weeks)[i].count]]
       \o flattenWeeks(Tail(weeks), wi + 1)

\* lines 278-282: one circle per point; orthographicProject (lines 214-220) takes
\* lon and lat, r is size.toFixed(2) and fill-opacity is opacity.toFixed(2), in hundredths
circleOf(p) ==
  [lon |-> p.lon, lat |-> p.lat,
   r |-> Frac(120 + RoundSqrt(2500 * p.size.bonusSquared.n, 250), 100),
   fill |-> p.color,
   fillOpacity |-> ToFixed(p.opacity, 100)]

\* lines 222-292: the scene, by its parts
buildGlobeSVG(pts) ==
  [background |-> "rect fill=url(#bg)",
   sphere |-> TRUE,
   graticules |-> 16,
   circles |-> [i \in 1..Len(pts) |-> circleOf(pts[i])],
   caption |-> "Contribution Globe (Last 52 Weeks)"]

\* line 331: the fallback scene
GlobeFallback ==
  [background |-> "rect fill=#19000e",
   sphere |-> FALSE,
   graticules |-> 0,
   circles |-> <<>>,
   caption |-> "No contribution data"]

(***************************************************************************)
(* update-readme: what the endpoints may answer.                           *)
(***************************************************************************)
Fetches == {"commit", "prs", "waka", "events"}

\* commit messages: none, a plain one, and one that holds the two characters $$
Messages == {<<>>, <<Tok("fix typo", 0)>>, <<Dollar, Dollar>>}
CommitBodies ==
  {[message |-> m, date |-> d] : m \in Messages, d \in {{}, {0}}}
PRBodies == {[total_count |-> c] : c \in {{}, {2}}}
WakaBodies == {[human_readable_total |-> t] : t \in {<<>>, <<Tok("5 hrs", 0)>>}}
PushEvent == [type |-> "PushEvent", action |-> "", size |-> 2]
PullRequestOpened == [type |-> "PullRequestEvent", action |-> "opened", size |-> 0]
IssueClosed == [type |-> "IssuesEvent", action |-> "closed", size |-> 0]
WatchEvent == [type |-> "WatchEvent", action |-> "started", size |-> 0]
EventBodies == {<<>>, <<PushEvent, PullRequestOpened, IssueClosed, WatchEvent>>}
GeminiBodies == {[text |-> t] : t \in {<<>>, <<Tok("devlog", 0)>>}}

\* a response: how it ended (ok, a non-success status, a transport error) and its JSON
Responses(bodies, none) ==
  {[how |-> "ok", body |-> b] : b \in bodies}
    \cup {[how |-> h, body |-> none] : h \in {"status", "transport"}}
NoCommitBody == [message |-> <<>>, date |-> {}]
NoPRBody == [total_count |-> {}]
NoWakaBody == [human_readable_total |-> <<>>]
NoGeminiBody == [text |-> <<>>]
NoResponse(none) == [how |-> "none", body |-> none]

Envs == [waka : BOOLEAN, gemini : BOOLEAN]

(***************************************************************************)
(* update-readme: the fetch functions' results.                            *)
(***************************************************************************)
\* lines 11-15: message || "No commits", date || null
LatestCommitOf(body) ==
  [message |-> IF body.message = <<>> THEN <<Tok("No commits", 0)>> ELSE body.message,
   date |-> body.date]

\* line 22: data.total_count || 0
OpenPRsOf(body) == IF body.total_count = {} THEN 0 ELSE CHOOSE c \in body.total_count : TRUE

\* line 35: data?.data?.human_readable_total || "No data"
NoData == <<Tok("No data", 0)>>
WakatimeOf(body) ==
  IF body.human_readable_total = <<>> THEN NoData ELSE body.human_readable_total

\* lines 43-54: the loop over the events
NoEvents == [pushes |-> 0, prsOpened |-> 0, issuesOpened |-> 0, stars |-> 0]
RECURSIVE RecentOf(_)
RecentOf(events) ==
  IF events = <<>> THEN NoEvents
  ELSE LET ev == Head(events)
           rest == RecentOf(Tail(events))
       IN [pushes |-> rest.pushes + (IF ev.type = "PushEvent" THEN ev.size ELSE 0),
           prsOpened |-> rest.prsOpened
              + (IF ev.type = "PullRequestEvent" /\ ev.action = "opened" THEN 1 ELSE 0),
           issuesOpened |-> rest.issuesOpened
              + (IF ev.type = "IssuesEvent" /\ ev.action = "opened" THEN 1 ELSE 0),
           stars |-> rest.stars + (IF ev.type = "WatchEvent" THEN 1 ELSE 0)]

\* lines 77-78: text?.trim() || null ; lines 79-82: a failure is logged and gives null
AIDevlogOf(r) == IF r.how = "ok" THEN r.body.text ELSE <<>>

\* line 101: the greeting holds DateTime.now(), to the minute
GreetingAt(t) == Tok("### Hey there! ", t)

\* lines 68, 91: formatDistanceToNow(new Date(date)) + " ago", or "unknown"
AgeOf(date, clock) ==
  IF date = {} THEN Tok("unknown", 0) ELSE Tok("ago", clock - (CHOOSE d \in date : TRUE))

\* lines 85-95: the template, trimmed
generateSection(greet, latestCommit, openPRs, wakatime, aiDevlog, clock) ==
  <<greet, NL, NL>>
    \o (IF aiDevlog # <<>>
        THEN <<Tok("#### AI Daily Devlog", 0), NL, NL>> \o aiDevlog \o <<NL>>
        ELSE <<>>)
    \o <<NL, Tok("- Currently working on", 0), NL, Tok("- Latest commit:", 0)>>
    \o latestCommit.message
    \o <<AgeOf(latestCommit.date, clock), NL, Tok("- Open pull requests:", openPRs), NL,
         Tok("- WakaTime (last 7 days):", 0)>>
    \o wakatime

\* a variant of PromiseAll that waits for every promise and never rejects (allSettled)
PromiseAllSettled(st) ==
  IF \E f \in Fetches : st[f] = "pending" THEN "pending" ELSE "fulfilled"

\* line 104: Promise.all rejects with the first rejection, fulfils when all have
PromiseAll(st) ==
  IF \E f \in Fetches : st[f] = "rejected" THEN "rejected"
  ELSE IF \E f \in Fetches : st[f] = "pending" THEN "pending"
  ELSE "fulfilled"

(***************************************************************************)
(* update-readme: the steps of main().                                     *)
(***************************************************************************)
NoCalendar == [how |-> "none", weeks |-> <<>>]
NoScene == [background |-> "", sphere |-> FALSE, graticules |-> 0, circles |-> <<>>,
            caption |-> ""]
GlobeIdle ==
  /\ gpc = "idle" /\ genv = FALSE /\ gresp = NoCalendar /\ contrib = <<>>
  /\ gbody = <<>>
  /\ points = <<>> /\ globeSvg = [exists |-> FALSE, scene |-> NoScene] /\ gexit = -1
  /\ gpath = "" /\ gNoData = {}
MapIdle ==
  /\ mapIn = [on |-> FALSE, contrib |-> <<>>, maxWeeks |-> 0]
  /\ mapOut = [done |-> FALSE, points |-> <<>>]
  /\ colorIn = [on |-> FALSE, count |-> 0, maxCount |-> 0]
  /\ colorOut = [done |-> FALSE, color |-> <<>>]
NoLanguages == [how |-> "none", languages |-> <<>>]
NoTop == [langs |-> <<>>, total |-> 0, maxValue |-> 0]
NoChart == [background |-> "", caption |-> "", grid |-> <<>>, axes |-> 0, polygon |-> <<>>,
            labels |-> <<>>]
RadarIdle ==
  /\ rpc = "idle" /\ rbody = <<>> /\ renv = FALSE /\ rresp = NoLanguages
  /\ rawLangs = <<>> /\ top = NoTop /\ radarSvg = [exists |-> FALSE, scene |-> NoChart]
  /\ rexit = -1 /\ rpath = "" /\ rNoData = {} /\ rdivzero = FALSE

ReadmeIdle ==
  /\ pc = "idle" /\ now = 0
  /\ greeting = GreetingAt(0)
  /\ fst = [f \in Fetches |-> "pending"]
  /\ requests = [f \in Fetches |-> 0]
  /\ results = [commit |-> LatestCommitOf(NoCommitBody), prs |-> 0, waka |-> NoData,
                events |-> NoEvents]
  /\ generatedSection = <<>> /\ renderAt = 0 /\ existing = <<>> /\ updatedReadme = <<>>
  /\ exitCode = -1 /\ written = FALSE /\ runs = 0
  /\ unchanged = FALSE /\ sameClock = FALSE

Ok(b) == [how |-> "ok", body |-> b]
NoFile == [exists |-> FALSE, text |-> <<>>]
File(t) == [exists |-> TRUE, text |-> t]

\* the join: any answer of any endpoint (chosen when it first answers), and a
\* README.md that is missing, empty or holds the pair of markers
InitJoin ==
  /\ ReadmeIdle
  /\ env \in Envs
  /\ resp = [commit |-> NoResponse(NoCommitBody), prs |-> NoResponse(NoPRBody),
             waka |-> NoResponse(NoWakaBody), events |-> NoResponse(<<>>),
             gemini |-> NoResponse(NoGeminiBody)]
  /\ README \in {NoFile, File(<<>>), File(<<startMarker, NL, endMarker>>)}
  /\ GlobeIdle /\ MapIdle /\ RadarIdle

\* the rewriting of README.md: any README.md of up to MaxPriorLen tokens, and
\* endpoints that answer with success
InitReadme ==
  /\ ReadmeIdle
  /\ env \in Envs
  /\ \E c \in {[message |-> <<Tok("fix typo", 0)>>, date |-> {0}],
                [message |-> <<Dollar, Dollar>>, date |-> {0}],
                [message |-> <<>>, date |-> {}]},
        w \in IF env.waka THEN {Ok([human_readable_total |-> <<Tok("5 hrs", 0)>>])}
              ELSE {NoResponse(NoWakaBody)},
        g \in IF env.gemini THEN {Ok([text |-> <<Tok("devlog", 0)>>])}
              ELSE {NoResponse(NoGeminiBody)} :
       resp = [commit |-> Ok(c), prs |-> Ok([total_count |-> {2}]), waka |-> w,
               events |-> Ok(<<PushEvent, PullRequestOpened, IssueClosed, WatchEvent>>),
               gemini |-> g]
  /\ README \in {NoFile} \cup {File(t) : t \in SeqsUpTo(PriorAlphabet, MaxPriorLen)}
  /\ GlobeIdle /\ MapIdle /\ RadarIdle

\* lines 97-109: main() starts, reads the clock for the greeting and issues the
\* fetches; fetchWakatimeStats resolves at once when a credential is missing
main ==
  /\ pc \in {"idle", "done", "failed"}
  /\ runs < MaxRuns
  /\ unchanged' = (pc = "done")
  /\ fst' = [f \in Fetches |-> IF f = "waka" /\ ~env.waka THEN "ok" ELSE "pending"]
  /\ requests' = [f \in Fetches |-> IF f = "waka" /\ ~env.waka THEN 0 ELSE 1]
  /\ results' = [commit |-> LatestCommitOf(NoCommitBody), prs |-> 0, waka |-> NoData,
                 events |-> NoEvents]
  /\ greeting' = GreetingAt(now)
  /\ sameClock' = (greeting = GreetingAt(now))
  /\ pc' = "fetching"
  /\ exitCode' = -1
  /\ written' = FALSE
  /\ runs' = runs + 1
  /\ generatedSection' = <<>> /\ existing' = <<>> /\ updatedReadme' = <<>>
  /\ UNCHANGED <<now, env, resp, renderAt, README, globeVars, mapVars, radarVars>>

\* lines 113-120: generateSection runs, reading the clock for the commit's age
Render(res, aiDevlog) ==
  /\ generatedSection' =
       generateSection(greeting, res.commit, res.prs, res.waka, aiDevlog, now)
  /\ renderAt' = now
  /\ sameClock' = (sameClock /\ renderAt = now)

\* the upstream data is held fixed over the runs of one behaviour: an endpoint that
\* has answered answers the same again
Answers(f, r) == resp[f].how = "none" \/ r = resp[f]

\* one of the four promises settles; Promise.all's outcome decides what main does:
\* a rejection goes to main().catch (lines 146-149), the last fulfilment to
\* generateAIDevlog, which returns null at once without an API key (line 59)
Settle(f, r, rejected, value) ==
  /\ Answers(f, r)
  /\ LET fst2 == [fst EXCEPT ![f] = IF rejected THEN "rejected" ELSE "ok"]
      results2 == IF rejected THEN results ELSE [results EXCEPT ![f] = value]
      joined == PromiseAll(fst2)
     IN
     /\ fst' = fst2
     /\ results' = results2
     /\ resp' = [resp EXCEPT ![f] = r]
     /\ unchanged' = (unchanged /\ r = resp[f])
     /\ pc' = CASE joined = "rejected" -> "failed"
                [] joined = "pending" -> pc
                [] OTHER -> IF env.gemini THEN "generateContent" ELSE "readFile"
     /\ exitCode' = IF joined = "rejected" THEN 1 ELSE exitCode
     /\ IF joined = "fulfilled" /\ ~env.gemini
        THEN Render(results2, <<>>)
        ELSE UNCHANGED <<generatedSection, renderAt, sameClock>>
     /\ UNCHANGED <<now, env, greeting, requests, existing, updatedReadme, README,
                    written, runs, globeVars, mapVars, radarVars>>

\* lines 8-16
fetchLatestCommit ==
  /\ pc = "fetching" /\ fst.commit = "pending"
  /\ \E r \in Responses(CommitBodies, NoCommitBody) :
       Settle("commit", r, r.how # "ok", LatestCommitOf(r.body))

\* lines 18-23
fetchOpenPRs ==
  /\ pc = "fetching" /\ fst.prs = "pending"
  /\ \E r \in Responses(PRBodies, NoPRBody) :
       Settle("prs", r, r.how # "ok", OpenPRsOf(r.body))

\* lines 30-35 (the request; lines 26-28 are in main)
fetchWakatimeStats ==
  /\ pc = "fetching" /\ fst.waka = "pending"
  /\ \E r \in Responses(WakaBodies, NoWakaBody) :
       Settle("waka", r, r.how # "ok", WakatimeOf(r.body))

\* lines 38-55: a non-success status gives zeros, only a transport error rejects
fetchRecentEvents ==
  /\ pc = "fetching" /\ fst.events = "pending"
  /\ \E r \in Responses(EventBodies, <<>>) :
       Settle("events", r, r.how = "transport", RecentOf(r.body))

\* lines 61-82: model.generateContent answers (or fails, which is caught)
generateAIDevlog ==
  /\ pc = "generateContent"
  /\ \E r \in {[how |-> "ok", body |-> b] : b \in GeminiBodies}
                \cup {[how |-> "transport", body |-> NoGeminiBody]} :
       /\ Answers("gemini", r)
       /\ resp' = [resp EXCEPT !.gemini = r]
       /\ unchanged' = (unchanged /\ r = resp.gemini)
       /\ Render(results, AIDevlogOf(r))
  /\ pc' = "readFile"
  /\ UNCHANGED <<now, env, greeting, fst, requests, results, existing, updatedReadme,
                 README, exitCode, written, runs, globeVars, mapVars, radarVars>>

\* lines 125-140: readFile answers (a failure gives the two markers), the new text is built
readFile ==
  /\ pc = "readFile"
  /\ existing' = IF README.exists THEN README.text ELSE <<startMarker, NL, endMarker>>
  /\ updatedReadme' = UpdatedReadme(existing', NewBlock(generatedSection))
  /\ pc' = "writeFile"
  /\ UNCHANGED <<now, env, greeting, fst, requests, resp, results, generatedSection,
                 renderAt, README, exitCode, written, runs, unchanged, sameClock,
                 globeVars, mapVars, radarVars>>

\* lines 142-144: writeFile completes and main returns
writeFile ==
  /\ pc = "writeFile"
  /\ README' = [exists |-> TRUE, text |-> updatedReadme]
  /\ written' = TRUE
  /\ pc' = "done"
  /\ exitCode' = 0
  /\ UNCHANGED <<now, env, greeting, fst, requests, resp, results, generatedSection,
                 renderAt, existing, updatedReadme, runs, unchanged, sameClock,
                 globeVars, mapVars, radarVars>>

\* lines 142, 146-149: writeFile fails, main().catch exits with 1
writeFileFails ==
  /\ pc = "writeFile"
  /\ pc' = "failed"
  /\ exitCode' = 1
  /\ UNCHANGED <<now, env, greeting, fst, requests, resp, results, generatedSection,
                 renderAt, existing, updatedReadme, README, written, runs, unchanged,
                 sameClock, globeVars, mapVars, radarVars>>

\* time passes; main reads the clock when it starts and when it renders the section,
\* so a tick after the rendering is the same as one after the run
Tick ==
  /\ now < MaxTime
  /\ pc \in {"idle", "fetching", "generateContent", "done", "failed"}
  /\ now' = now + 1
  /\ UNCHANGED <<pc, env, greeting, fst, requests, resp, results, generatedSection,
                 renderAt, existing, updatedReadme, README, exitCode, written, runs,
                 unchanged, sameClock, globeVars, mapVars, radarVars>>

Next ==
  \/ main
  \/ fetchLatestCommit
  \/ fetchOpenPRs
  \/ fetchWakatimeStats
  \/ fetchRecentEvents
  \/ generateAIDevlog
  \/ readFile
  \/ writeFile
  \/ writeFileFails
  \/ Tick

SpecJoin == InitJoin /\ [][Next]_vars
SpecReadme == InitReadme /\ [][Next]_vars

\* update-readme at rest, for the specifications of the other two scripts
ReadmeOff ==
  /\ ReadmeIdle
  /\ env = [waka |-> FALSE, gemini |-> FALSE]
  /\ resp = [commit |-> NoResponse(NoCommitBody), prs |-> NoResponse(NoPRBody),
             waka |-> NoResponse(NoWakaBody), events |-> NoResponse(<<>>),
             gemini |-> NoResponse(NoGeminiBody)]
  /\ README = NoFile

(***************************************************************************)
(* mapCalendarToSphere and colorForCount applied to drawn arguments.       *)
(***************************************************************************)
Days == [weekIndex : 0..MaxWeekIndex, dayIndex : {0, 6}, count : 0..MaxCount]

\* the days come week by week (lines 189-194), so their week indices never decrease
Calendars ==
  {c \in SeqsUpTo(Days, MaxSamples) :
     \A i \in 1..(Len(c) - 1) : c[i].weekIndex <= c[i + 1].weekIndex}

\* one day in each of the weeks 0..99
HundredWeeks == [i \in 1..100 |-> [weekIndex |-> i - 1, dayIndex |-> 0, count |-> 1]]

InitMap ==
  /\ ReadmeOff /\ GlobeIdle /\ RadarIdle
  /\ mapOut = [done |-> FALSE, points |-> <<>>]
  /\ colorOut = [done |-> FALSE, color |-> Transparent]
  /\ \E m \in {[on |-> TRUE, contrib |-> c, maxWeeks |-> w] :
                 c \in Calendars, w \in 1..MaxWindow}
               \cup {[on |-> TRUE, contrib |-> HundredWeeks, maxWeeks |-> DefaultMaxWeeks]}
               \cup {[on |-> FALSE, contrib |-> <<>>, maxWeeks |-> 0]} :
       /\ mapIn = m
       /\ colorIn \in IF m.on THEN {[on |-> FALSE, count |-> 0, maxCount |-> 0]}
                      ELSE [on : {TRUE}, count : 0..MaxProbe, maxCount : 0..MaxProbe]

ApplyMapCalendarToSphere ==
  /\ mapIn.on /\ ~mapOut.done
  /\ mapOut' = [done |-> TRUE, points |-> mapCalendarToSphere(mapIn.contrib, mapIn.maxWeeks)]
  /\ UNCHANGED <<mapIn, colorIn, colorOut, readmeVars, globeVars, radarVars>>

ApplyColorForCount ==
  /\ colorIn.on /\ ~colorOut.done
  /\ colorOut' = [done |-> TRUE, color |-> colorForCount(colorIn.count, colorIn.maxCount)]
  /\ UNCHANGED <<mapIn, mapOut, colorIn, readmeVars, globeVars, radarVars>>

NextMap ==
  \/ ApplyMapCalendarToSphere
  \/ ApplyColorForCount

SpecMap == InitMap /\ [][NextMap]_vars

(***************************************************************************)
(* Contribution globe: the steps of main() (lines 323-345).                *)
(***************************************************************************)
\* the calendar's weeks, each of at most one day
CalendarBodies ==
  SeqsUpTo(SeqsUpTo([day : {0, 6}, count : 0..MaxCount], 1), MaxSamples)

\* the calendar is held fixed over the runs of one behaviour
CalendarResponses ==
  {[how |-> "ok", weeks |-> gbody]}
    \cup {[how |-> h, weeks |-> <<>>] : h \in {"status", "transport"}}

InitGlobe ==
  /\ ReadmeOff /\ MapIdle /\ RadarIdle
  /\ gpc = "idle" /\ genv = FALSE /\ gresp = NoCalendar /\ contrib = <<>>
  /\ points = <<>> /\ globeSvg = [exists |-> FALSE, scene |-> NoScene] /\ gexit = -1
  /\ gpath = "" /\ gNoData = {}
  /\ gbody \in CalendarBodies

\* why this run has no data, if it has none
GlobeCause ==
  IF ~genv THEN "no credentials"
  ELSE IF gresp.how # "ok" THEN gresp.how
  ELSE IF contrib = <<>> THEN "empty" ELSE "data"

\* lines 324-334: main starts; without a token fetchContributionCalendar throws at
\* once (line 160) and main's catch writes the fallback scene
globeMain ==
  /\ gpc \in {"idle", "done", "writeFailed"}
  /\ \E token \in BOOLEAN :
       /\ genv' = token
       /\ gpc' = IF token THEN "fetching" ELSE "writeFallback"
  /\ gresp' = NoCalendar
  /\ contrib' = <<>> /\ points' = <<>>
  /\ gexit' = -1 /\ gpath' = ""
  /\ UNCHANGED <<gbody, globeSvg, gNoData, readmeVars, mapVars, radarVars>>

\* lines 175-195, 327-337: the GraphQL request ends; a transport error or a
\* non-success status throws into main's catch, a calendar is flattened and mapped
fetchContributionCalendar ==
  /\ gpc = "fetching"
  /\ \E r \in CalendarResponses :
       /\ gresp' = r
       /\ IF r.how = "ok"
          THEN /\ contrib' = flattenWeeks(r.weeks, 0)
               /\ points' = mapCalendarToSphere(contrib', DefaultMaxWeeks)
               /\ gpc' = "writeScene"
          ELSE /\ UNCHANGED <<contrib, points>>
               /\ gpc' = "writeFallback"
  /\ UNCHANGED <<gbody, genv, globeSvg, gexit, gpath, gNoData, readmeVars, mapVars,
                 radarVars>>

\* lines 332-333 and 338-339: writeFile completes, main returns
globeWriteFile ==
  /\ gpc \in {"writeFallback", "writeScene"}
  /\ globeSvg' = [exists |-> TRUE,
                  scene |-> IF gpc = "writeFallback" THEN GlobeFallback
                            ELSE buildGlobeSVG(points)]
  /\ gpath' = IF gpc = "writeFallback" THEN "catch" ELSE "scene"
  /\ gNoData' = IF GlobeCause \in {"no credentials", "empty"}
                THEN gNoData \cup {[path |-> gpath', contrib |-> contrib,
                                    scene |-> globeSvg'.scene]}
                ELSE gNoData
  /\ gpc' = "done"
  /\ gexit' = 0
  /\ UNCHANGED <<gbody, genv, gresp, contrib, points, readmeVars, mapVars, radarVars>>

\* lines 342-345: writeFile fails, main().catch exits with 1
globeWriteFileFails ==
  /\ gpc \in {"writeFallback", "writeScene"}
  /\ gpc' = "writeFailed"
  /\ gexit' = 1
  /\ UNCHANGED <<gbody, genv, gresp, contrib, points, globeSvg, gpath, gNoData,
                 readmeVars, mapVars, radarVars>>

NextGlobe ==
  \/ globeMain
  \/ fetchContributionCalendar
  \/ globeWriteFile
  \/ globeWriteFileFails

SpecGlobe == InitGlobe /\ [][NextGlobe]_vars

(***************************************************************************)
(* Skill radar (src/scripts/generate-skill-radar.js).                      *)
(***************************************************************************)
\* line 43: slice(0, 6)
TopK == 6
\* line 54
gridLevels == 5
\* line 52: Math.min(width, height) * 0.32 with width 700 and height 520
RadarRadius == Frac(1664, 10)

\* k * x for an integer k
MulInt(k, x) == IF x.d = 0 THEN (IF k = 0 THEN NaN ELSE Frac(Sign(k) * x.n, 0)) ELSE Frac(k * x.n, x.d)
MulFrac(x, y) ==
  IF x.d = 0 \/ y.d = 0
  THEN (IF IsNaN(x) \/ IsNaN(y) \/ x.n = 0 \/ y.n = 0 THEN NaN
        ELSE Frac(Sign(x.n) * Sign(y.n), 0))
  ELSE Frac(x.n * y.n, x.d * y.d)

\* line 29: name and total_seconds || 0; a language is named by its place in the answer
RECURSIVE langsFrom(_, _)
langsFrom(languages, i) ==
  IF languages = <<>> THEN <<>>
  ELSE <<[name |-> i,
          value |-> IF Head(languages).total_seconds = {} THEN 0
                    ELSE CHOOSE v \in Head(languages).total_seconds : TRUE]>>
       \o langsFrom(Tail(languages), i + 1)

\* a variant of insertSorted that puts x after the elements that compare equal to it
insertSortedAfterTies(x, sorted) ==
  LET before == {i \in 1..Len(sorted) : sorted[i].value < x.value}
      at == IF before = {} THEN Len(sorted) + 1 ELSE CHOOSE i \in before : \A j \in before : i <= j
  IN SubSeq(sorted, 1, at - 1) \o <<x>> \o SubSeq(sorted, at, Len(sorted))

\* x, which came before every element of sorted, put in its place: before the first
\* element that does not compare above it (b.value - a.value, a stable sort)
insertSorted(x, sorted) ==
  LET before == {i \in 1..Len(sorted) : sorted[i].value <= x.value}
      at == IF before = {} THEN Len(sorted) + 1 ELSE CHOOSE i \in before : \A j \in before : i <= j
  IN SubSeq(sorted, 1, at - 1) \o <<x>> \o SubSeq(sorted, at, Len(sorted))

\* line 42: Array.prototype.sort with (a, b) => b.value - a.value.  (The sort is in
\* place; rawLangs below keeps the order of the answer, which the names record.)
RECURSIVE sortByValue(_)
sortByValue(langs) ==
  IF langs = <<>> THEN <<>> ELSE insertSorted(Head(langs), sortByValue(Tail(langs)))

RECURSIVE SumValues(_)
SumValues(langs) == IF langs = <<>> THEN 0 ELSE Head(langs).value + SumValues(Tail(langs))

\* lines 41-46
topOf(langs) ==
  LET t == SubSeq(sortByValue(langs), 1, Min(TopK, Len(langs)))
  IN [langs |-> t,
      total |-> SumValues(t),
      maxValue |-> CHOOSE m \in {t[i].value : i \in 1..Len(t)} :
                     \A i \in 1..Len(t) : t[i].value <= m]

\* lines 9-18: one vertex per language, kept in polar form: the angle in degrees
\* (-90 + 360 idx / count) and the distance r from the centre; polarToCartesian
\* (lines 5-7) takes these two
buildPolygonPoints(languages, maxValue, radius) ==
  [i \in 1..Len(languages) |->
     LET ratio == IF maxValue = 0 THEN Frac(0, 1) ELSE Div(languages[i].value, maxValue)
     IN [angle |-> AddInt(-90, Div(360 * (i - 1), Len(languages))),
         r |-> MulFrac(radius, ratio)]]

\* lines 48-99: the chart, by its parts
buildRadarSVG(t) ==
  [background |-> "rect fill=url(#bg)",
   caption |-> "Skill Radar (Last 90 Days)",
   grid |-> [i \in 1..gridLevels |->
               buildPolygonPoints([j \in 1..Len(t.langs) |->
                                     [name |-> t.langs[j].name, value |-> t.maxValue]],
                                  t.maxValue,
                                  MulFrac(RadarRadius, Frac(i, gridLevels)))],
   axes |-> Len(t.langs),
   polygon |-> buildPolygonPoints(t.langs, t.maxValue, RadarRadius),
   labels |-> [i \in 1..Len(t.langs) |->
                 [name |-> t.langs[i].name,
                  pct |-> ToFixed(MulInt(100, Div(t.langs[i].value, t.total)), 10)]]]

\* line 36: the placeholder
RadarPlaceholder ==
  [background |-> "", caption |-> "No WakaTime data", grid |-> <<>>, axes |-> 0,
   polygon |-> <<>>, labels |-> <<>>]

Seconds(v) == [total_seconds |-> {v}]
\* the languages of an answer: any values up to MaxValue, the magnitudes
\* 10, 50, 30, 5, 20, 15, 1, and answers with a language that has no total_seconds
LanguageBodies ==
  SeqsUpTo({Seconds(v) : v \in 0..MaxValue}, MaxLangs)
    \cup {<<Seconds(10), Seconds(50), Seconds(30), Seconds(5), Seconds(20), Seconds(15),
            Seconds(1)>>,
          <<[total_seconds |-> {}]>>,
          <<[total_seconds |-> {}], Seconds(1)>>}

InitRadar ==
  /\ ReadmeOff /\ GlobeIdle /\ MapIdle
  /\ rpc = "idle" /\ renv = FALSE /\ rresp = NoLanguages
  /\ rawLangs = <<>> /\ top = NoTop /\ radarSvg = [exists |-> FALSE, scene |-> NoChart]
  /\ rexit = -1 /\ rpath = "" /\ rNoData = {} /\ rdivzero = FALSE
  /\ rbody \in LanguageBodies

\* why this run has no data, if it has none
RadarCause ==
  IF ~renv THEN "no credentials"
  ELSE IF rresp.how # "ok" THEN rresp.how
  ELSE IF rawLangs = <<>> THEN "empty" ELSE "data"

\* lines 33-39 with 20-25: main starts; without the credentials
\* fetchWakatimeLanguages returns [] at once and main goes to write the placeholder
radarMain ==
  /\ rpc \in {"idle", "done", "failed", "writeFailed"}
  /\ \E creds \in BOOLEAN :
       /\ renv' = creds
       /\ rpc' = IF creds THEN "fetching" ELSE "writePlaceholder"
  /\ rresp' = NoLanguages
  /\ rawLangs' = <<>> /\ top' = NoTop
  /\ rexit' = -1 /\ rpath' = "" /\ rdivzero' = FALSE
  /\ UNCHANGED <<rbody, radarSvg, rNoData, readmeVars, globeVars, mapVars>>

\* lines 26-30, 34-46, 105-108: the request ends.  A transport error rejects, and
\* main().catch exits with 1; a non-success status gives []; an answer gives its
\* languages, and main sorts them and takes the first six
fetchWakatimeLanguages ==
  /\ rpc = "fetching"
  /\ \E h \in {"ok", "status", "transport"} :
       LET langs == IF h = "ok" THEN langsFrom(rbody, 1) ELSE <<>>
       IN /\ rresp' = [how |-> h, languages |-> IF h = "ok" THEN rbody ELSE <<>>]
          /\ rawLangs' = langs
          /\ top' = IF langs = <<>> THEN NoTop ELSE topOf(langs)
          /\ rpc' = IF h = "transport" THEN "failed"
                    ELSE IF langs = <<>> THEN "writePlaceholder" ELSE "writeChart"
          /\ rexit' = IF h = "transport" THEN 1 ELSE rexit
  /\ UNCHANGED <<rbody, renv, radarSvg, rpath, rNoData, rdivzero, readmeVars, globeVars,
                 mapVars>>

\* lines 36-38 and 48-103: the chart is built (line 79 divides by total), writeFile
\* completes and main returns
radarWriteFile ==
  /\ rpc \in {"writePlaceholder", "writeChart"}
  /\ radarSvg' = [exists |-> TRUE,
                  scene |-> IF rpc = "writePlaceholder" THEN RadarPlaceholder
                            ELSE buildRadarSVG(top)]
  /\ rdivzero' = (rpc = "writeChart" /\ top.total = 0)
  /\ rpath' = IF rpc = "writePlaceholder" THEN "placeholder" ELSE "chart"
  /\ rNoData' = IF RadarCause \in {"no credentials", "empty"}
                THEN rNoData \cup {[path |-> rpath', langs |-> rawLangs,
                                    scene |-> radarSvg'.scene]}
                ELSE rNoData
  /\ rpc' = "done"
  /\ rexit' = 0
  /\ UNCHANGED <<rbody, renv, rresp, rawLangs, top, readmeVars, globeVars, mapVars>>

\* lines 36/101 and 105-108: writeFile fails, main().catch exits with 1
radarWriteFileFails ==
  /\ rpc \in {"writePlaceholder", "writeChart"}
  /\ rpc' = "writeFailed"
  /\ rexit' = 1
  /\ UNCHANGED <<rbody, renv, rresp, rawLangs, top, radarSvg, rpath, rNoData, rdivzero,
                 readmeVars, globeVars, mapVars>>

NextRadar ==
  \/ radarMain
  \/ fetchWakatimeLanguages
  \/ radarWriteFile
  \/ radarWriteFileFails

SpecRadar == InitRadar /\ [][NextRadar]_vars

(***************************************************************************)
(* Properties of update-readme.                                            *)
(***************************************************************************)
\* the first position at or after from where text holds tok; 0 when there is none
FirstAt(text, tok, from) ==
  LET at == {i \in from..Len(text) : text[i] = tok}
  IN IF at = {} THEN 0 ELSE CHOOSE i \in at : \A j \in at : i <= j

\* text holds sub as one contiguous run of tokens
Contains(text, sub) ==
  \E i \in 0..(Len(text) - Len(sub)) : SubSeq(text, i + 1, i + Len(sub)) = sub

\* the README as read holds a start marker that an end marker follows
MarkedRegion(text) ==
  LET s == FirstAt(text, startMarker, 1)
  IN s # 0 /\ FirstAt(text, endMarker, s + 1) # 0

\* C1: when the README that was read holds a start marker followed later by an
\* end marker, the README that is written keeps, token for token, all the text
\* before the first start marker and all the text after the first end marker
\* that follows it; only the region between the two is replaced.
C1_OutsideMarkersPreserved ==
  (pc = "done" /\ MarkedRegion(existing)) =>
    LET s == FirstAt(existing, startMarker, 1)
        e == FirstAt(existing, endMarker, s + 1)
        before == SubSeq(existing, 1, s - 1)
        after == SubSeq(existing, e + 1, Len(existing))
        out == README.text
    IN /\ README.exists
       /\ Len(out) >= Len(before) + Len(after)
       /\ SubSeq(out, 1, Len(before)) = before
       /\ SubSeq(out, Len(out) - Len(after) + 1, Len(out)) = after

\* a run that replaced a marked region which had text after it, and changed the file
C1_Witness ==
  /\ pc = "done" /\ MarkedRegion(existing)
  /\ FirstAt(existing, endMarker, FirstAt(existing, startMarker, 1) + 1) < Len(existing)
  /\ README.text # existing
  /\ runs = 1

\* C2: README.md is written only when all four promises were fulfilled; once one
\* of them is rejected the run has not written and does not write README.md, it
\* has ended with exit status 1, and no endpoint was asked more than once.
C2_JoinAllOrNothing ==
  /\ written => \A f \in Fetches : fst[f] = "ok"
  /\ (\E f \in Fetches : fst[f] = "rejected") =>
        (~written /\ pc = "failed" /\ exitCode = 1)
  /\ pc \in {"readFile", "writeFile", "done"} => \A f \in Fetches : fst[f] = "ok"
  /\ \A f \in Fetches : requests[f] <= 1

\* a run that failed on one fetch while another had succeeded and a third was pending
C2_Witness ==
  /\ pc = "failed" /\ exitCode = 1 /\ ~written
  /\ fst.events = "rejected" /\ fst.commit = "ok" /\ fst.prs = "pending"

\* the section holds no replacement pattern and no marker
PlainSection(section) ==
  \A i \in 1..Len(section) : section[i] \notin {Dollar, startMarker, endMarker}

C10_FreshBlockAfterRun ==
  pc = "done" =>
    /\ Contains(README.text, NewBlock(generatedSection))
    /\ (~includes(existing, startMarker) \/ ~includes(existing, endMarker))
          => README.text = NewBlock(generatedSection) \o <<NL, NL>> \o existing

(***************************************************************************)
(* Properties of the contribution globe.                                   *)
(***************************************************************************)
\* the samples of the window that ends at the highest week index
Retained(samples, maxWeeks) ==
  LET H == ReduceMax(samples, "weekIndex")
      InWindow(d) == H - maxWeeks + 1 <= d.weekIndex /\ d.weekIndex <= H
  IN SelectSeq(samples, InWindow)

\* the points are the retained samples in input order, each at the longitude of its
\* relative week (0 at -180, maxWeeks - 1 at +180) and the latitude of its day
WindowSelected(samples, maxWeeks, pts) ==
  LET H == ReduceMax(samples, "weekIndex")
      kept == Retained(samples, maxWeeks)
  IN /\ Len(pts) = Len(kept)
     /\ \A k \in 1..Len(kept) :
          LET relWeek == kept[k].weekIndex - Max(0, H - maxWeeks + 1)
          IN /\ relWeek \in 0..(maxWeeks - 1)
             /\ FracEq(pts[k].lon, Frac(-180 * (maxWeeks - 1) + 360 * relWeek, maxWeeks - 1))
             /\ (relWeek = 0 => FracEq(pts[k].lon, Frac(-180, 1)))
             /\ (relWeek = maxWeeks - 1 => FracEq(pts[k].lon, Frac(180, 1)))
             /\ FracEq(pts[k].lat, Frac(-330 + 110 * kept[k].dayIndex, 6))

VisibilityEncoded(count, maxCount, opacity, color, atMaximum) ==
  /\ count = 0 <=> FracEq(opacity, Frac(0, 1))
  /\ count = 0 <=> color = Transparent
  /\ count # 0 => /\ FracLeq(Frac(2, 10), opacity) /\ FracLeq(opacity, Frac(95, 100))
                  /\ color.kind = "rgb"
                  /\ color.r \in 0..255 /\ color.g \in 0..255 /\ color.b \in 0..255
  /\ atMaximum => color = RGB(251, 159, 22)

\* colorForCount alone
ColourEncoded(count, maxCount, color, atMaximum) ==
  /\ count = 0 <=> color = Transparent
  /\ count # 0 => color.kind = "rgb"
  /\ atMaximum => color = RGB(251, 159, 22)

\* C9 as stated: a point is invisible (opacity 0, colour rgba(0,0,0,0)) exactly
\* when its count is zero; a nonzero count gets an opacity from 0.2 to 0.95 and an
\* rgb colour; a sample whose count equals the maximum count gets (251,159,22).
C9_VisibilityEncoding ==
  /\ mapOut.done =>
       LET kept == Retained(mapIn.contrib, mapIn.maxWeeks)
           maxCount == ReduceMax(mapIn.contrib, "count")
       IN /\ Len(mapOut.points) = Len(kept)
          /\ \A k \in 1..Len(kept) :
               VisibilityEncoded(kept[k].count, maxCount, mapOut.points[k].opacity,
                                 mapOut.points[k].color, kept[k].count = maxCount)
  /\ colorOut.done =>
       ColourEncoded(colorIn.count, colorIn.maxCount, colorOut.color,
                     colorIn.count = colorIn.maxCount)

\* C9 as amended: the same, the high endpoint being the colour of a sample whose
\* nonzero count equals the maximum count.
C9_VisibilityEncodingOfNonzeroMaximum ==
  /\ mapOut.done =>
       LET kept == Retained(mapIn.contrib, mapIn.maxWeeks)
           maxCount == ReduceMax(mapIn.contrib, "count")
       IN /\ Len(mapOut.points) = Len(kept)
          /\ \A k \in 1..Len(kept) :
               VisibilityEncoded(kept[k].count, maxCount, mapOut.points[k].opacity,
                                 mapOut.points[k].color,
                                 kept[k].count # 0 /\ kept[k].count = maxCount)
  /\ colorOut.done =>
       ColourEncoded(colorIn.count, colorIn.maxCount, colorOut.color,
                     colorIn.count # 0 /\ colorIn.count = colorIn.maxCount)

\* a day without contributions next to the day with the most: one point invisible,
\* the other at the cap of the opacity and in the high endpoint colour
C9_Witness ==
  /\ mapOut.done /\ Len(mapOut.points) = 2
  /\ mapIn.contrib[1].count = 0 /\ mapIn.contrib[2].count = 3
  /\ FracEq(mapOut.points[1].opacity, Frac(0, 1)) /\ mapOut.points[1].color = Transparent
  /\ FracEq(mapOut.points[2].opacity, Frac(95, 100))
  /\ mapOut.points[2].color = RGB(251, 159, 22)

\* C4: in the globe a run without credentials or with an empty calendar raises
\* nothing (it does not go through main's catch), and no run whose request got a
\* non-success status goes the same way to the same samples and the same file.
C4_GlobeNoDataIsNotFailure ==
  /\ (gpc = "done" /\ GlobeCause \in {"no credentials", "empty"}) => gpath = "scene"
  /\ (gpc = "done" /\ GlobeCause = "status")
       => [path |-> gpath, contrib |-> contrib, scene |-> globeSvg.scene] \notin gNoData

\* the fetch of the calendar failed: the fallback scene is written, exit status 0
GlobeFallbackOnFetchFailure ==
  (genv /\ gresp.how \in {"status", "transport"}) =>
    /\ gpc \in {"writeFallback", "done", "writeFailed"}
    /\ gpc = "done" =>
         /\ globeSvg.exists /\ globeSvg.scene.background # ""
         /\ globeSvg.scene.caption = "No contribution data"
         /\ globeSvg.scene.circles = <<>>
         /\ gexit = 0

(***************************************************************************)
(* Properties of the skill radar.                                          *)
(***************************************************************************)
\* C3: when the request for the languages fails (a transport error or a
\* non-success status) the run still writes skill-radar.svg, the file holds a
\* background element, a caption that says there is no data and no data points,
\* and the run ends with exit status 0.
C3_RadarFallbackOnFetchFailure ==
  (renv /\ rresp.how \in {"status", "transport"}) =>
    /\ rpc \in {"writePlaceholder", "done", "writeFailed"}
    /\ rpc = "done" =>
         /\ radarSvg.exists /\ radarSvg.scene.background # ""
         /\ radarSvg.scene.caption = "No WakaTime data"
         /\ radarSvg.scene.polygon = <<>>
         /\ rexit = 0

\* in the radar no run whose request got a non-success status goes the same way to
\* the same languages and the same file as a run without credentials or data
RadarNoDataIsNotFailure ==
  (rpc = "done" /\ RadarCause = "status")
    => [path |-> rpath, langs |-> rawLangs, scene |-> radarSvg.scene] \notin rNoData

\* the chart of this run is being written or has been written
Charted == rpc = "writeChart" \/ (rpc = "done" /\ rpath = "chart")

\* a comes before b in the order of the chart: the larger value first, and of two
\* equal values the one that came first in the answer
Precedes(a, b) == a.value > b.value \/ (a.value = b.value /\ a.name < b.name)

\* C7: the categories of the chart are the six languages (all, if there are fewer)
\* with the largest values, by descending value, languages of equal value in the
\* order of the answer; the maximum used for the scale is at least every one of
\* their values.
C7_TopSixStableDescending ==
  Charted =>
    LET t == top.langs
        k == Min(TopK, Len(rawLangs))
        chosen == {t[i].name : i \in 1..Len(t)}
    IN /\ Len(t) = k
       /\ \A i \in 1..k : t[i].name \in 1..Len(rawLangs) /\ rawLangs[t[i].name] = t[i]
       /\ \A i, j \in 1..k : i < j => Precedes(t[i], t[j])
       /\ \A e \in (1..Len(rawLangs)) \ chosen : \A i \in 1..k : Precedes(t[i], rawLangs[e])
       /\ \A i \in 1..k : top.maxValue >= t[i].value
       /\ rpc = "done" =>
            /\ Len(radarSvg.scene.labels) = k /\ Len(radarSvg.scene.polygon) = k
            /\ \A i \in 1..k : radarSvg.scene.labels[i].name = t[i].name

\* the values 10, 50, 30, 5, 20, 15, 1: the chart has all of them but the 1
C7_Witness ==
  /\ rpc = "done" /\ rpath = "chart" /\ Len(rawLangs) = 7
  /\ [i \in 1..Len(rawLangs) |-> rawLangs[i].value] = <<10, 50, 30, 5, 20, 15, 1>>
  /\ [i \in 1..Len(top.langs) |-> top.langs[i].value] = <<50, 30, 20, 15, 10, 5>>
  /\ top.maxValue = 50

\* C8: when every language of a non-empty answer has the value zero, building the
\* chart divides by no zero, every vertex of the data polygon lies at radius 0,
\* and no number of the chart is NaN or infinite.
C8_RadarAllZeroDivisionSafe ==
  (rpc = "done" /\ rpath = "chart" /\ \A i \in 1..Len(rawLangs) : rawLangs[i].value = 0) =>
    /\ ~rdivzero
    /\ \A i \in 1..Len(radarSvg.scene.polygon) :
         FracEq(radarSvg.scene.polygon[i].r, Frac(0, 1))
    /\ \A l \in 1..Len(radarSvg.scene.grid) : \A i \in 1..Len(radarSvg.scene.grid[l]) :
         IsFinite(radarSvg.scene.grid[l][i].r)
    /\ \A i \in 1..Len(radarSvg.scene.labels) : IsFinite(radarSvg.scene.labels[i].pct)

\* the globe's part of the same: with every count zero each point has the base size
\* 1.2 and the opacity 0, and its longitude and latitude are finite
GlobeAllZeroDivisionSafe ==
  (mapOut.done /\ mapIn.maxWeeks >= 2
     /\ \A i \in 1..Len(mapIn.contrib) : mapIn.contrib[i].count = 0) =>
    \A k \in 1..Len(mapOut.points) :
      /\ mapOut.points[k].size = [base |-> Frac(12, 10), bonusSquared |-> Frac(0, 4)]
      /\ FracEq(mapOut.points[k].opacity, Frac(0, 1))
      /\ IsFinite(mapOut.points[k].lon) /\ IsFinite(mapOut.points[k].lat)

====
